---- MODULE Spec2Model ----
(***************************************************************************)
(* font-to-svg.py: main() asks for a font file, an output folder and a     *)
(* canvas size, then export_glyphs_to_svg() writes one SVG per character   *)
(* of CHARS that the font's Unicode cmap maps.                             *)
(*                                                                         *)
(* Numbers that Python holds as floats (the scale, the progress value,     *)
(* the baseline offset) are exact rationals <<n, d>> in lowest terms with  *)
(* d > 0.  A formatted float is the text [minus, mag]: the number of "-"   *)
(* signs written in front of the magnitude, and the magnitude.             *)
(***************************************************************************)
EXTENDS Integers, Sequences, FiniteSets, TLC

\* ------------------------------------------------------------------ bounds
MaxTables == 2
MaxAscent == 1
MaxDescent == 2

\* --------------------------------------------------------------- constants
minvalue == 100
maxvalue == 10000

None == 0

Upper == <<"A","B","C","D","E","F","G","H","I","J","K","L","M",
           "N","O","P","Q","R","S","T","U","V","W","X","Y","Z">>
Lower == <<"a","b","c","d","e","f","g","h","i","j","k","l","m",
           "n","o","p","q","r","s","t","u","v","w","x","y","z">>
Digits == <<"0","1","2","3","4","5","6","7","8","9">>

CHARS == Upper \o Lower \o Digits \o <<".", ",">>

total_chars == Len(CHARS)

CharSet == {CHARS[k] : k \in 1..Len(CHARS)}

\* ------------------------------------------------------- Python built-ins
\* The ASCII code of every character of CHARS.
Ascii ==
    [c \in CharSet |->
        IF \E k \in 1..26 : Upper[k] = c
            THEN 64 + (CHOOSE k \in 1..26 : Upper[k] = c)
        ELSE IF \E k \in 1..26 : Lower[k] = c
            THEN 96 + (CHOOSE k \in 1..26 : Lower[k] = c)
        ELSE IF \E k \in 1..10 : Digits[k] = c
            THEN 47 + (CHOOSE k \in 1..10 : Digits[k] = c)
        ELSE IF c = "." THEN 46
        ELSE 44]

\* ord(char)
ord(char) == Ascii[char]

\* str.isupper() of a one-character ASCII string: a cased, uppercase letter.
isupper(char) == ord(char) \in 65..90

Abs(n) == IF n < 0 THEN -n ELSE n

RECURSIVE GCD(_, _)
GCD(a, b) == IF b = 0 THEN a ELSE GCD(b, a % b)

\* The rational n/d (d # 0) in lowest terms with a positive denominator.
Rat(n, d) ==
    LET g == GCD(Abs(n), Abs(d))
        s == IF d < 0 THEN -1 ELSE 1
    IN  <<(s * n) \div g, Abs(d) \div g>>

\* f"{x}" of a float: one "-" in front of the magnitude when x is negative.
FormatFloat(r) == [minus |-> IF r[1] < 0 THEN 1 ELSE 0, mag |-> <<Abs(r[1]), r[2]>>]

\* "-" written in front of an already formatted number: f"-{x}".
PrependMinus(text) == [text EXCEPT !.minus = @ + 1]

\* ------------------------------------------------------------------- fonts
\* Glyph names are the positive integers; the glyph the fonts below give
\* to codepoint cp is named cp.
FullMap == [cp \in {ord(c) : c \in CharSet} |-> cp]

\* Maps "B", "b", "7" and "."; "A" (the first character) and "," (the last)
\* are absent, and so is every other character of CHARS.
SparseMap == [cp \in {66, 98, 55, 46} |-> cp]

EmptyMap == [cp \in {} |-> None]

\* A cmap subtable: what isUnicode() answers, and its .cmap dictionary.
TableChoices ==
    { [isUnicode |-> FALSE, cmap |-> SparseMap],
      [isUnicode |-> TRUE,  cmap |-> EmptyMap],
      [isUnicode |-> TRUE,  cmap |-> SparseMap],
      [isUnicode |-> TRUE,  cmap |-> FullMap] }

RECURSIVE SeqsUpTo(_, _)
SeqsUpTo(S, n) ==
    IF n = 0 THEN {<<>>}
    ELSE LET shorter == SeqsUpTo(S, n - 1)
         IN  shorter \cup {Append(s, x) : s \in {t \in shorter : Len(t) = n - 1}, x \in S}

AllGlyphs == {cp : cp \in DOMAIN FullMap}

\* The glyph sets: every glyph has an outline, or the glyph of "b" has none.
GlyphSets == {AllGlyphs, AllGlyphs \ {98}}

Ascents == 1..MaxAscent
Descents == (-1)..MaxDescent

\* What TTFont(font_path) can parse out of the chosen file.
Fonts ==
    [ tables  : SeqsUpTo(TableChoices, MaxTables),
      glyphs  : GlyphSets,
      ascent  : Ascents,
      descent : Descents ]

\* askinteger(minvalue=100, maxvalue=10000) answers within the two limits.
Sizes == {minvalue, maxvalue}

NoFont == [tables |-> <<>>, glyphs |-> {}, ascent |-> 0, descent |-> 0]

\* ------------------------------------------------------------------- state
VARIABLES
    pc,            \* where main() / export_glyphs_to_svg() stands
    font_path,     \* answer of askopenfilename ("" when cancelled)
    output_dir,    \* answer of askdirectory ("" when cancelled)
    svg_size,      \* <<SVG_WIDTH, SVG_HEIGHT>>
    win,           \* the progress window: "none", "open", "destroyed"
    label_var,     \* the status StringVar
    progress_var,  \* the progress DoubleVar
    font,          \* the parsed TTFont
    cmap,          \* the local cmap: None or a dictionary
    total_height,  \* ascent - descent
    i,             \* the index enumerate(CHARS) yields next
    disk,          \* the output directory: whether it exists, and its files
    dialogs,       \* the message boxes shown so far
    exc            \* str(e) of the exception raised ("" when none)

vars == <<pc, font_path, output_dir, svg_size, win, label_var, progress_var,
          font, cmap, total_height, i, disk, dialogs, exc>>

NoFiles == [name \in {} |-> None]

StartingLabel == [text |-> "Starting export...", char |-> "", pos |-> 0, total |-> 0]

Init ==
    /\ pc = "ask_font"
    /\ font_path = ""
    /\ output_dir = ""
    /\ svg_size = <<0, 0>>
    /\ win = "none"
    /\ label_var = StartingLabel
    /\ progress_var = Rat(0, 1)
    /\ font = NoFont
    /\ cmap = [isNone |-> TRUE, dict |-> EmptyMap]
    /\ total_height = 0
    /\ i = 0
    /\ disk = [exists |-> FALSE, files |-> NoFiles]
    /\ dialogs = <<>>
    /\ exc = ""

\* ----------------------------------------------------- export: pure parts
\* Mutant: the first subtable is taken, whatever isUnicode() answers.
FindFirstCmap(tables) ==
    IF tables = <<>>
        THEN [isNone |-> TRUE, dict |-> EmptyMap]
        ELSE [isNone |-> FALSE, dict |-> tables[1].cmap]

\* for table in font["cmap"].tables: if table.isUnicode(): cmap = table.cmap; break
FindUnicodeCmap(tables) ==
    LET uni == {k \in 1..Len(tables) : tables[k].isUnicode}
    IN  IF uni = {}
            THEN [isNone |-> TRUE, dict |-> EmptyMap]
            ELSE [isNone |-> FALSE,
                  dict |-> tables[CHOOSE k \in uni : \A j \in uni : k <= j].cmap]

\* `not cmap`: None and the empty dictionary are both falsy.
NotCmap(c) == c.isNone \/ DOMAIN c.dict = {}

\* cmap.get(ord(char))
cmap_get(dict, char) == IF ord(char) \in DOMAIN dict THEN dict[ord(char)] ELSE None

\* Mutant: the test is inverted, `if glyph_name:`.
GlyphNameFound(glyph_name) == glyph_name # None

\* `not glyph_name`
NotGlyphName(glyph_name) == glyph_name = None

\* pen.getCommands() after glyph.draw(pen): the outline of the glyph.
path_data(glyph_name) == [outline |-> glyph_name]

\* scale = SVG_HEIGHT / total_height   (total_height # 0)
scale(SVG_HEIGHT, total) == Rat(SVG_HEIGHT, total)

\* Mutant: every letter gets the prefix, `char.isalpha()`.
filename_isalpha(char) ==
    (IF ord(char) \in (65..90) \cup (97..122) THEN <<"!">> ELSE <<>>) \o <<char, ".svg">>

\* filename = f"{'!' if char.isupper() else ''}{char}.svg"
filename(char) == (IF isupper(char) THEN <<"!">> ELSE <<>>) \o <<char, ".svg">>

\* transform = f"translate(0,{SVG_HEIGHT * 0.9}) scale({scale},-{scale})"
transform(SVG_HEIGHT, sc) ==
    [ translate_y |-> FormatFloat(Rat(SVG_HEIGHT * 9, 10)),
      scale_x     |-> FormatFloat(sc),
      scale_y     |-> PrependMinus(FormatFloat(sc)) ]

\* The svgwrite.Drawing with its one path, as dwg.save() writes it.
Drawing(size, glyph_name, total) ==
    [ complete  |-> TRUE,
      width     |-> [px |-> size[1]],
      height    |-> [px |-> size[2]],
      viewBox   |-> <<0, 0, size[1], size[2]>>,
      d         |-> path_data(glyph_name),
      fill      |-> "black",
      transform |-> transform(size[2], scale(size[2], total)) ]

\* Mutant: the zero-based index is reported, i / total_chars * 100.
progress_zero_based(idx) == Rat(idx * 100, total_chars)

\* progress = (i + 1) / total_chars * 100
progress(idx) == Rat((idx + 1) * 100, total_chars)

\* f"Exporting: '{char}' ({i + 1}/{total_chars})"
label(char, idx) ==
    [text |-> "Exporting", char |-> char, pos |-> idx + 1, total |-> total_chars]

WriteFile(d, name, doc) ==
    [d EXCEPT !.files = [n \in DOMAIN d.files \cup {name} |->
                            IF n = name THEN doc ELSE d.files[n]]]

MessageBox(kind, title, text, arg) ==
    [kind |-> kind, title |-> title, text |-> text, arg |-> arg]

\* Mutant: the exception is recorded and the export carries on.
RaiseAndContinue(message) ==
    /\ exc' = message
    /\ pc' = pc

\* An exception leaves export_glyphs_to_svg and reaches main's except clause.
Raise(message) ==
    /\ exc' = message
    /\ pc' = "except"

\* ------------------------------------------------------------------ main()
\* font_path = filedialog.askopenfilename(...); if not font_path: warn, return
AskFont ==
    /\ pc = "ask_font"
    /\ \E answer \in {"", "font.ttf"} :
        /\ font_path' = answer
        /\ IF answer = ""
            THEN /\ dialogs' = Append(dialogs,
                        MessageBox("showwarning", "Cancelled", "No font selected.", ""))
                 /\ pc' = "end"
            ELSE /\ dialogs' = dialogs
                 /\ pc' = "ask_dir"
    /\ UNCHANGED <<output_dir, svg_size, win, label_var, progress_var, font, cmap,
                   total_height, i, disk, exc>>

\* output_dir = filedialog.askdirectory(...); if not output_dir: warn, return
AskDir ==
    /\ pc = "ask_dir"
    /\ \E answer \in {"", "out"} :
        /\ output_dir' = answer
        /\ IF answer = ""
            THEN /\ dialogs' = Append(dialogs,
                        MessageBox("showwarning", "Cancelled", "No output folder selected.", ""))
                 /\ pc' = "end"
            ELSE /\ dialogs' = dialogs
                 /\ pc' = "ask_size"
    /\ UNCHANGED <<font_path, svg_size, win, label_var, progress_var, font, cmap,
                   total_height, i, disk, exc>>

\* size_input = simpledialog.askinteger(...); if not size_input: warn, return
\* svg_size = (size_input, size_input)
AskSize ==
    /\ pc = "ask_size"
    /\ \E size_input \in Sizes \cup {None} :
        IF size_input = None
            THEN /\ dialogs' = Append(dialogs,
                        MessageBox("showwarning", "Cancelled", "No size entered.", ""))
                 /\ pc' = "end"
                 /\ svg_size' = svg_size
            ELSE /\ dialogs' = dialogs
                 /\ pc' = "window"
                 /\ svg_size' = <<size_input, size_input>>
    /\ UNCHANGED <<font_path, output_dir, win, label_var, progress_var, font, cmap,
                   total_height, i, disk, exc>>

\* progress_win = tk.Toplevel(); label_var = StringVar("Starting export...");
\* progress_var = DoubleVar(); then the try block calls export_glyphs_to_svg.
ProgressWindow ==
    /\ pc = "window"
    /\ win' = "open"
    /\ label_var' = StartingLabel
    /\ progress_var' = Rat(0, 1)
    /\ pc' = "open_font"
    /\ UNCHANGED <<font_path, output_dir, svg_size, font, cmap, total_height, i,
                   disk, dialogs, exc>>

\* --------------------------------------------------- export_glyphs_to_svg()
\* font = TTFont(font_path); glyph_set = font.getGlyphSet()
OpenFont ==
    /\ pc = "open_font"
    /\ \E parsed \in Fonts :
        /\ font' = parsed
        /\ pc' = "find_cmap"
    /\ UNCHANGED <<font_path, output_dir, svg_size, win, label_var, progress_var,
                   cmap, total_height, i, disk, dialogs, exc>>

\* TTFont(font_path) raises on a file that is no font.
OpenFontFails ==
    /\ pc = "open_font"
    /\ Raise("Not a TrueType or OpenType font")
    /\ UNCHANGED <<font_path, output_dir, svg_size, win, label_var, progress_var,
                   font, cmap, total_height, i, disk, dialogs>>

\* cmap = None; for table in ...; if not cmap: raise RuntimeError(...)
FindCmap ==
    /\ pc = "find_cmap"
    /\ cmap' = FindUnicodeCmap(font.tables)
    /\ IF NotCmap(cmap')
        THEN Raise("No Unicode cmap found in the font.")
        ELSE pc' = "metrics" /\ exc' = exc
    /\ UNCHANGED <<font_path, output_dir, svg_size, win, label_var, progress_var,
                   font, total_height, i, disk, dialogs>>

\* ascent = font["hhea"].ascent; descent = font["hhea"].descent
\* total_height = ascent - descent
FontMetrics ==
    /\ pc = "metrics"
    /\ total_height' = font.ascent - font.descent
    /\ pc' = "makedirs"
    /\ UNCHANGED <<font_path, output_dir, svg_size, win, label_var, progress_var,
                   font, cmap, i, disk, dialogs, exc>>

\* os.makedirs(output_dir, exist_ok=True); total_chars = len(CHARS)
MakeDirs ==
    /\ pc = "makedirs"
    /\ disk' = [disk EXCEPT !.exists = TRUE]
    /\ i' = 0
    /\ pc' = "loop"
    /\ UNCHANGED <<font_path, output_dir, svg_size, win, label_var, progress_var,
                   font, cmap, total_height, dialogs, exc>>

\* os.makedirs raises OSError (no permission, a file in the way).
MakeDirsFails ==
    /\ pc = "makedirs"
    /\ Raise("makedirs: OSError")
    /\ UNCHANGED <<font_path, output_dir, svg_size, win, label_var, progress_var,
                   font, cmap, total_height, i, disk, dialogs>>

\* The character the loop handles next, and its glyph name.
char == CHARS[i + 1]
glyph_name == cmap_get(cmap.dict, char)

InLoop == pc = "loop" /\ i < total_chars

\* if not glyph_name: print("Skipping ..."); continue
LoopSkip ==
    /\ InLoop
    /\ NotGlyphName(glyph_name)
    /\ i' = i + 1
    /\ UNCHANGED <<pc, font_path, output_dir, svg_size, win, label_var, progress_var,
                   font, cmap, total_height, disk, dialogs, exc>>

\* glyph = glyph_set[glyph_name] raises KeyError: the cmap names a glyph
\* the glyph set does not hold.
LoopKeyError ==
    /\ InLoop
    /\ ~NotGlyphName(glyph_name)
    /\ glyph_name \notin font.glyphs
    /\ Raise("KeyError")
    /\ UNCHANGED <<font_path, output_dir, svg_size, win, label_var, progress_var,
                   font, cmap, total_height, i, disk, dialogs>>

\* scale = SVG_HEIGHT / total_height raises ZeroDivisionError.
LoopZeroDivision ==
    /\ InLoop
    /\ ~NotGlyphName(glyph_name)
    /\ glyph_name \in font.glyphs
    /\ total_height = 0
    /\ Raise("division by zero")
    /\ UNCHANGED <<font_path, output_dir, svg_size, win, label_var, progress_var,
                   font, cmap, total_height, i, disk, dialogs>>

CanSave ==
    /\ InLoop
    /\ ~NotGlyphName(glyph_name)
    /\ glyph_name \in font.glyphs
    /\ total_height # 0

\* The body of the loop to dwg.save(), then the progress bar and the label.
LoopExport ==
    /\ CanSave
    /\ disk' = WriteFile(disk, filename(char), Drawing(svg_size, glyph_name, total_height))
    /\ progress_var' = progress(i)
    /\ label_var' = label(char, i)
    /\ i' = i + 1
    /\ UNCHANGED <<pc, font_path, output_dir, svg_size, win, font, cmap, total_height,
                   dialogs, exc>>

\* dwg.save() raises OSError: the file could not be opened (nothing is
\* written), or the write failed part-way (a truncated file is left).
LoopSaveFails ==
    /\ CanSave
    /\ \E opened \in BOOLEAN :
        disk' = IF opened
                    THEN WriteFile(disk, filename(char),
                            [Drawing(svg_size, glyph_name, total_height)
                                EXCEPT !.complete = FALSE])
                    ELSE disk
    /\ Raise("save: OSError")
    /\ UNCHANGED <<font_path, output_dir, svg_size, win, label_var, progress_var,
                   font, cmap, total_height, i, dialogs>>

\* Mutant: showinfo sits inside the loop body and is reached before the
\* loop has handled every character.
ShowDoneInsideLoop ==
    /\ pc = "loop"
    /\ dialogs' = Append(dialogs, MessageBox("showinfo", "Done", "SVGs saved in:", output_dir))
    /\ pc' = "finally"
    /\ UNCHANGED <<font_path, output_dir, svg_size, win, label_var, progress_var,
                   font, cmap, total_height, i, disk, exc>>

\* messagebox.showinfo("Done", f"SVGs saved in:\n{output_dir}")
ShowDone ==
    /\ pc = "loop"
    /\ i = total_chars
    /\ dialogs' = Append(dialogs, MessageBox("showinfo", "Done", "SVGs saved in:", output_dir))
    /\ pc' = "finally"
    /\ UNCHANGED <<font_path, output_dir, svg_size, win, label_var, progress_var,
                   font, cmap, total_height, i, disk, exc>>

\* ------------------------------------------------------- main(), the end
\* except Exception as e: messagebox.showerror("Error", str(e))
Except ==
    /\ pc = "except"
    /\ dialogs' = Append(dialogs, MessageBox("showerror", "Error", exc, ""))
    /\ pc' = "finally"
    /\ UNCHANGED <<font_path, output_dir, svg_size, win, label_var, progress_var,
                   font, cmap, total_height, i, disk, exc>>

\* finally: progress_win.destroy()
Finally ==
    /\ pc = "finally"
    /\ win' = "destroyed"
    /\ pc' = "end"
    /\ UNCHANGED <<font_path, output_dir, svg_size, label_var, progress_var,
                   font, cmap, total_height, i, disk, dialogs, exc>>

Next ==
    \/ AskFont
    \/ AskDir
    \/ AskSize
    \/ ProgressWindow
    \/ OpenFont
    \/ OpenFontFails
    \/ FindCmap
    \/ FontMetrics
    \/ MakeDirs
    \/ MakeDirsFails
    \/ LoopSkip
    \/ LoopKeyError
    \/ LoopZeroDivision
    \/ LoopExport
    \/ LoopSaveFails
    \/ ShowDone
    \/ Except
    \/ Finally

Spec == Init /\ [][Next]_vars

\* ================================================================== claims
NoCmapMessage == "No Unicode cmap found in the font."

Shown(kind) == {k \in 1..Len(dialogs) : dialogs[k].kind = kind}

\* The font has been parsed and the Unicode cmap has been looked for.
PastFindCmap == pc \notin {"ask_font", "ask_dir", "ask_size", "window", "open_font", "find_cmap"}
                    /\ win # "none" /\ font # NoFont

HasUnicodeTable == \E k \in 1..Len(font.tables) : font.tables[k].isUnicode

Mapped(c) == ord(c) \in DOMAIN cmap.dict

\* The loop has handled every character and nothing was raised.
LoopCompleted == i = total_chars /\ exc = ""

UpperLetters == {Upper[k] : k \in 1..Len(Upper)}

ExpectedName(c) == IF c \in UpperLetters THEN <<"!", c, ".svg">> ELSE <<c, ".svg">>

\* -r and r < q of rationals in lowest terms.
RatNeg(r) == <<-r[1], r[2]>>

RatLess(r, q) == r[1] * q[2] < q[1] * r[2]

\* The number a formatted float reads back as: the magnitude, negated by one
\* leading "-"; two or more leading signs are no number.
NotANumber == <<0, 0>>
Parse(text) ==
    IF text.minus = 0 THEN text.mag
    ELSE IF text.minus = 1 THEN RatNeg(text.mag)
    ELSE NotANumber

\* C1: with the Unicode mapping found and ascent - descent > 0, a run whose
\* loop completes leaves exactly one complete SVG file for each character of
\* CHARS the mapping contains and no file for a character it lacks.
C1_OneFilePerMappedChar ==
    (LoopCompleted /\ ~NotCmap(cmap) /\ total_height > 0) =>
        /\ \A c \in CharSet :
            IF Mapped(c)
                THEN filename(c) \in DOMAIN disk.files /\ disk.files[filename(c)].complete
                ELSE filename(c) \notin DOMAIN disk.files
        /\ Cardinality(DOMAIN disk.files) = Cardinality({c \in CharSet : Mapped(c)})

C1_Witness ==
    /\ LoopCompleted /\ ~NotCmap(cmap) /\ total_height > 0
    /\ \E c \in CharSet : Mapped(c) /\ filename(c) \in DOMAIN disk.files
    /\ \E c \in CharSet : ~Mapped(c)
    /\ Shown("showinfo") # {}

\* C2: a font without any Unicode cmap subtable makes the export end with the
\* no-Unicode-cmap error, and whenever the run ends with that error the output
\* directory has not been created and no file has been written.
C2_NoCmapFailsBeforeDisk ==
    /\ (PastFindCmap /\ ~HasUnicodeTable) => exc = NoCmapMessage
    /\ exc = NoCmapMessage => (~disk.exists /\ DOMAIN disk.files = {})

C2_Witness ==
    /\ pc = "end" /\ exc = NoCmapMessage
    /\ Len(font.tables) > 0 /\ ~HasUnicodeTable
    /\ Shown("showerror") # {}

FilenameTable ==
    /\ \A c \in CharSet : filename(c) = ExpectedName(c)
    /\ {c \in CharSet : Head(filename(c)) = "!"} = UpperLetters
    /\ Cardinality(UpperLetters) = 26

\* C4: the file of a character is named "!" + c + ".svg" for the 26 uppercase
\* letters and c + ".svg" for every other character of CHARS; the files on
\* disk carry exactly these names.
C4_FilenameByCharAlone ==
    /\ FilenameTable
    /\ \A k \in 1..i : Mapped(CHARS[k]) => ExpectedName(CHARS[k]) \in DOMAIN disk.files
    /\ \A name \in DOMAIN disk.files :
            \E k \in 1..total_chars : k <= i + 1 /\ name = ExpectedName(CHARS[k])

C4_Witness ==
    /\ <<"!", "B", ".svg">> \in DOMAIN disk.files
    /\ <<"b", ".svg">> \in DOMAIN disk.files
    /\ <<"7", ".svg">> \in DOMAIN disk.files
    /\ <<".", ".svg">> \in DOMAIN disk.files

C6_ProgressReports ==
    [][ label_var' # label_var =>
            /\ i' = i + 1
            /\ progress_var' = Rat(i' * 100, total_chars)
            /\ label_var' = [text |-> "Exporting", char |-> CHARS[i'], pos |-> i',
                             total |-> total_chars]
            /\ RatLess(progress_var, progress_var')
            /\ ~RatLess(Rat(100, 1), progress_var') ]_vars

C6_Witness ==
    /\ label_var.text = "Exporting" /\ label_var.char = "b" /\ label_var.pos = 28
    /\ ~Mapped("a")
    /\ progress_var = Rat(2800, 64)

\* An exception raised inside the loop, while CHARS[i + 1] was handled.
LoopErrors == {"KeyError", "division by zero", "save: OSError"}

\* C7: a failure raised while the k-th character is handled ends the batch:
\* no later character is exported, the loop is not resumed, and the files of
\* the earlier characters stay on disk as they were.
C7_FailureEndsBatchNoRollback ==
    /\ [](exc \in LoopErrors =>
            \A k \in 1..total_chars : k > i + 1 => filename(CHARS[k]) \notin DOMAIN disk.files)
    /\ [][ exc' # "" =>
            /\ pc' # "loop" /\ i' = i
            /\ \A k \in 1..i : filename(CHARS[k]) \in DOMAIN disk.files =>
                    /\ filename(CHARS[k]) \in DOMAIN disk'.files
                    /\ disk'.files[filename(CHARS[k])] = disk.files[filename(CHARS[k])]
            /\ exc # "" => disk' = disk ]_vars

C7_Witness ==
    /\ pc = "end" /\ exc = "save: OSError"
    /\ i > 1 /\ i + 1 < total_chars
    /\ \E k \in 1..i : filename(CHARS[k]) \in DOMAIN disk.files
    /\ \E k \in 1..total_chars : k > i + 1 /\ Mapped(CHARS[k])

\* C8: a run that reached the export step shows at most one of the success
\* and failure messages, the success message only once the loop has handled
\* all of CHARS, and ends with exactly one of them, the failure message
\* exactly when the export raised, and the progress window destroyed.
C8_OneTerminalMessage ==
    /\ Cardinality(Shown("showinfo") \cup Shown("showerror")) <= 1
    /\ Shown("showinfo") # {} => (i = total_chars /\ exc = "")
    /\ \A k \in Shown("showinfo") : dialogs[k].arg = output_dir
    /\ (pc = "end" /\ win # "none") =>
            /\ Cardinality(Shown("showinfo") \cup Shown("showerror")) = 1
            /\ Shown("showerror") # {} <=> exc # ""
            /\ win = "destroyed"

C8_Witness ==
    /\ pc = "end" /\ win = "destroyed"
    /\ Shown("showerror") # {} /\ exc = "KeyError"
    /\ DOMAIN disk.files # {}

\* C9 (as claimed): a font with at least one Unicode-capable cmap subtable
\* never ends with the no-Unicode-cmap error.
C9_UnicodeTableMeansFound ==
    (PastFindCmap /\ HasUnicodeTable) => exc # NoCmapMessage

\* C10 (as claimed): once success is reported the progress value is 100 and
\* the status names the last character of CHARS.
C10_SuccessEndsAtHundred ==
    Shown("showinfo") # {} =>
        /\ progress_var = Rat(100, 1)
        /\ label_var.char = CHARS[total_chars]
        /\ label_var.pos = total_chars

====
